---------------------------- MODULE Spec2Model ----------------------------
(***************************************************************************)
(* The ingestion pipeline of bademeister-go: the ZMQ subscriber's receive  *)
(* loop and its per-message decode goroutines (package zmqsubscriber), the *)
(* daemon's event loop with its quit channel and subscriber goroutine      *)
(* (package daemon), and the storage the daemon writes to (package         *)
(* storage).                                                               *)
(*                                                                         *)
(* Every goroutine is a process with a program counter.  A send on an      *)
(* unbuffered channel blocks its goroutine at the send until a receiver    *)
(* takes the value; the two complete in one step.                          *)
(***************************************************************************)
EXTENDS Naturals, Integers, Sequences, FiniteSets, TLC

(***************************************************************************)
(* Bounds of the model.                                                    *)
(***************************************************************************)
\* Number of ZMQ messages the socket delivers in one run.
MaxMsgs == 2
\* Number of calls of BademeisterDaemon.Stop() made from outside the daemon.
MaxStops == 1
\* Number of ZMQ messages delivered in the runs checked for liveness.
MaxLiveMsgs == 1
\* Number of calls of BademeisterDaemon.Stop() made from outside the daemon
\* in the runs checked for the callers of Stop().
MaxLiveStops == 2
\* Number of NewStorage calls made on one database path.
MaxOpens == 3
\* Length in bytes of the longest data push of a coinbase script.
MaxPushLen == 5

(***************************************************************************)
(* Program constants.                                                      *)
(***************************************************************************)
topicRawBlock == "rawblock"
topicRawTxWithFee == "rawtxwithfee"
\* A topic the subscriber did not subscribe to.
topicOther == "other"

\* make(chan struct{}, 1): the capacity of b.quit.  The channels
\* z.IncomingTx, z.IncomingBlocks and parseErrors are made without a
\* capacity: a send on them completes only together with a receive.
QuitCap == 1

(***************************************************************************)
(* Values.                                                                 *)
(***************************************************************************)
MsgIds == 1..MaxMsgs
\* Transaction ids a well-formed rawtxwithfee payload can decode to.
TxIds == {1, 2}
\* A payload body: 0 is a payload the wire decoder rejects; for a
\* transaction a body b > 0 decodes to the transaction with TxID b, for a
\* block any body > 0 decodes to a block.
Messages ==
    [topic : {topicRawTxWithFee}, body : {0} \cup TxIds]
        \cup [topic : {topicRawBlock}, body : {0, 1}]
        \cup [topic : {topicOther}, body : {0}]
NoMsg == [topic |-> "none", body |-> 0]

\* Return values and errors: <<kind, detail>>.
NoRet == <<"none", 0>>
Nil == <<"nil", 0>>
\* An interface value read while it is being written (type and data word
\* of different values).
Torn == <<"torn", 0>>
ErrSetRcvtimeo == <<"could not set a receive timeout", 0>>
ErrRecv == <<"could not receive ZMQ message", 0>>
ErrMalformedTx(i) == <<"malformed rawtxwithfee payload", i>>
ErrMalformedBlock(i) == <<"malformed rawblock payload", i>>
ErrUnknownTopic(i) == <<"unknown topic", i>>
ErrDuplicateKey(i) == <<"DuplicateKey", i>>
ErrStorage(i) == <<"StorageError", i>>
ErrStat == <<"os.Stat failed", 0>>
ErrSqlOpen == <<"sql.Open failed", 0>>
ErrInitialize(k) == <<"could not initialize the database", k>>
ErrMigrate(v) == <<"could not migrate the database: cannot migrate from version", v>>
ErrTxCount == <<"could not get count from table transaction", 0>>
\* A panic of the calling goroutine.
Panic == <<"panic", 0>>

\* const currentVersion = 5
currentVersion == 5
\* The tables of the schema, in the order initialize creates them.
Tables == <<"config", "transaction", "block", "transaction_block">>
TableSet == {Tables[k] : k \in 1..Len(Tables)}
\* Schema versions found in databases written by other releases.
Versions == {currentVersion - 1, currentVersion, currentVersion + 1}

VARIABLES
    \* ---- ZMQSubscriber ----
    cancel,         \* z.cancel
    subPc,          \* position of ZMQSubscriber.Run
    subRet,         \* value returned by ZMQSubscriber.Run
    socketCloses,   \* number of calls of z.socket.Close()
    nRecv,          \* number of messages received from the socket
    tasks,          \* the decode goroutines, one per received message
    \* ---- BademeisterDaemon ----
    dPc,            \* position of BademeisterDaemon.Run
    dRet,           \* value returned by BademeisterDaemon.Run
    curTx,          \* message whose transaction the loop is processing
    zmqSubErr,      \* the variable zmqSubErr of BademeisterDaemon.Run
    gPc,            \* position of the goroutine started by Run
    quit,           \* number of values in channel b.quit
    stopCalls,      \* external Stop() calls made
    stopPending,    \* external Stop() calls blocked in the send on b.quit
    \* ---- Storage ----
    rows,           \* txids in table "transaction"
    storeActive,    \* number of Storage operations in progress
    storeCallers,   \* contexts that have called a Storage operation
    \* ---- history ----
    taken,          \* messages the daemon loop received, in order
    applied,        \* calls of Storage.AddTransaction, in order
    stopBeforeRun,  \* the first ZMQSubscriber.Stop() preceded Run
    stopClean,      \* at that call no message was in flight and Run had
                    \* not returned
    recvDue,        \* receive attempts made with the stop flag set or an
                    \* error waiting on parseErrors
    dStopInLoop,    \* an external Stop() was called with Run in its loop
    \* ---- the database file and the Storage handle ----
    dbExists,       \* a file exists at the database path
    dbTables,       \* tables of the database
    dbConfig,       \* rows of table config (column version), in order
    storePc,        \* "none", "open" or "closed": the *Storage of the caller
    openRes,        \* outcome of the last NewStorage call
    storeRes,       \* outcome of the last AddTransaction / TxCount call
    nOpens,         \* NewStorage calls made
    inserted,       \* TxIDs whose AddTransaction returned nil
    \* ---- one rawblock message ----
    wireBlock,      \* the transactions of the decoded wire.MsgBlock
    codecTask,      \* the goroutine running processMessage on it
    \* ---- one rawtxwithfee message ----
    rawTx,          \* the payload of the message
    txTask          \* the goroutine running processMessage on it

subVars == <<cancel, subPc, subRet, socketCloses, nRecv, tasks>>
daemonVars == <<dPc, dRet, curTx, zmqSubErr, gPc, quit, stopCalls, stopPending>>
storeVars == <<rows, storeActive, storeCallers>>
histVars == <<taken, applied, stopBeforeRun, stopClean, recvDue, dStopInLoop>>
fileVars == <<dbExists, dbTables, dbConfig, storePc, openRes, storeRes, nOpens,
              inserted>>
codecVars == <<wireBlock, codecTask, rawTx, txTask>>
\* The variables of the pipeline other than the table "transaction".
pipelineVars == <<subVars, daemonVars, storeActive, storeCallers, histVars>>
vars == <<subVars, daemonVars, storeVars, histVars, fileVars, codecVars>>


(***************************************************************************)
(* Package zmqsubscriber                                                   *)
(***************************************************************************)

\* parseTransaction: the decoded transaction's TxID, or 0 when the payload
\* is rejected (frame count, trailer length or wire decode).
parseTransaction(body) == IF body \in TxIds THEN body ELSE 0

\* parseBlock: TRUE when the payload decodes to a block with a height.
parseBlock(body) == body > 0

\* processMessage with a send that does not wait for the consumer
\* (select with a default case): the goroutine finishes at once.
processMessageStepNoWait(m) ==
    CASE m.topic = topicRawTxWithFee ->
            IF parseTransaction(m.body) = 0 THEN "sendErr" ELSE "done"
      [] m.topic = topicRawBlock ->
            IF parseBlock(m.body) THEN "done" ELSE "sendErr"
      [] OTHER -> "sendErr"

\* processMessage up to its channel send: the position the decode goroutine
\* of message i reaches after decoding.
processMessageStep(m) ==
    CASE m.topic = topicRawTxWithFee ->
            IF parseTransaction(m.body) = 0 THEN "sendErr" ELSE "sendTx"
      [] m.topic = topicRawBlock ->
            IF parseBlock(m.body) THEN "sendBlock" ELSE "sendErr"
      [] OTHER -> "sendErr"

\* The error processMessage returns for message i.
processMessageErr(i, m) ==
    CASE m.topic = topicRawTxWithFee -> ErrMalformedTx(i)
      [] m.topic = topicRawBlock -> ErrMalformedBlock(i)
      [] OTHER -> ErrUnknownTopic(i)

\* Decode goroutines that have been started and have not finished.
InFlight == {i \in MsgIds : tasks[i].st \in {"run", "sendTx", "sendBlock", "sendErr"}}
\* Decode goroutines whose processMessage returned an error.
Failed == {i \in MsgIds : tasks[i].st \in {"sendErr", "reported"}}
\* Decode goroutines blocked in `parseErrors <- err`.
ErrSenders == {i \in MsgIds : tasks[i].st = "sendErr"}
\* Messages decoded into a Transaction / a Block.
DecodedTx == {i \in MsgIds : tasks[i].st \in {"sendTx", "done"}
                              /\ tasks[i].msg.topic = topicRawTxWithFee}
DecodedBlock == {i \in MsgIds : tasks[i].st \in {"sendBlock", "done"}
                                 /\ tasks[i].msg.topic = topicRawBlock}

\* Run without the deferred close.
deferCloseMissing(n) == n

\* The deferred z.socket.Close() of Run.
deferClose(n) == n + 1

\* A return of Run with value v: the deferred function closes the socket.
SubReturn(v) ==
    /\ subPc' = "done"
    /\ subRet' = v
    /\ socketCloses' = deferClose(socketCloses)

\* ZMQSubscriber.Stop()
SubStop ==
    /\ cancel' = TRUE
    /\ stopBeforeRun' = IF cancel THEN stopBeforeRun ELSE subPc = "idle"
    /\ stopClean' = IF cancel THEN stopClean
                              ELSE InFlight = {} /\ subPc # "done"
    /\ UNCHANGED <<subPc, subRet, socketCloses, nRecv, tasks>>
    /\ UNCHANGED <<daemonVars, storeVars, taken, applied, recvDue,
                   dStopInLoop>>
    /\ UNCHANGED <<fileVars, codecVars>>

\* z.socket.SetRcvtimeo(time.Second)
SubSetRcvtimeo ==
    /\ subPc = "settimeo"
    /\ \/ /\ subPc' = "loop"
          /\ UNCHANGED <<subRet, socketCloses>>
       \/ SubReturn(ErrSetRcvtimeo)
    /\ UNCHANGED <<cancel, nRecv, tasks>>
    /\ UNCHANGED <<daemonVars, storeVars, histVars>>
    /\ UNCHANGED <<fileVars, codecVars>>

\* A loop that never looks at z.cancel: for { ... }
SubLoopNoCancel ==
    /\ subPc = "loop"
    /\ subPc' = "select"
    /\ UNCHANGED <<subRet, socketCloses>>
    /\ UNCHANGED <<cancel, nRecv, tasks>>
    /\ UNCHANGED <<daemonVars, storeVars, histVars>>
    /\ UNCHANGED <<fileVars, codecVars>>

\* A loop that waits for the decode goroutines before each iteration.
SubLoopWaitsForTasks ==
    /\ subPc = "loop"
    /\ InFlight = {}
    /\ IF cancel
         THEN SubReturn(Nil)
         ELSE /\ subPc' = "select"
              /\ UNCHANGED <<subRet, socketCloses>>
    /\ UNCHANGED <<cancel, nRecv, tasks>>
    /\ UNCHANGED <<daemonVars, storeVars, histVars>>
    /\ UNCHANGED <<fileVars, codecVars>>

\* for !z.cancel { ... } return nil
SubLoop ==
    /\ subPc = "loop"
    /\ IF cancel
         THEN SubReturn(Nil)
         ELSE /\ subPc' = "select"
              /\ UNCHANGED <<subRet, socketCloses>>
    /\ UNCHANGED <<cancel, nRecv, tasks>>
    /\ UNCHANGED <<daemonVars, storeVars, histVars>>
    /\ UNCHANGED <<fileVars, codecVars>>

\* case <-parseErrors: return nil -- the error received is dropped.
SubSelectReturnsNil ==
    /\ subPc = "select"
    /\ IF ErrSenders # {}
         THEN \E i \in ErrSenders :
                /\ SubReturn(Nil)
                /\ tasks' = [tasks EXCEPT ![i].st = "reported"]
         ELSE /\ subPc' = "recv"
              /\ UNCHANGED <<subRet, socketCloses, tasks>>
    /\ UNCHANGED <<cancel, nRecv>>
    /\ UNCHANGED <<daemonVars, storeVars, histVars>>
    /\ UNCHANGED <<fileVars, codecVars>>

\* A select that receives every pending error before returning the first.
SubSelectDrainsAll ==
    /\ subPc = "select"
    /\ IF ErrSenders # {}
         THEN \E i \in ErrSenders :
                /\ SubReturn(processMessageErr(i, tasks[i].msg))
                /\ tasks' = [j \in MsgIds |->
                               IF j \in ErrSenders
                                 THEN [tasks[j] EXCEPT !.st = "reported"]
                                 ELSE tasks[j]]
         ELSE /\ subPc' = "recv"
              /\ UNCHANGED <<subRet, socketCloses, tasks>>
    /\ UNCHANGED <<cancel, nRecv>>
    /\ UNCHANGED <<daemonVars, storeVars, histVars>>
    /\ UNCHANGED <<fileVars, codecVars>>

\* select { case err := <-parseErrors: return err; default: }
\* The receive completes the send of one goroutine blocked on parseErrors.
SubSelect ==
    /\ subPc = "select"
    /\ IF ErrSenders # {}
         THEN \E i \in ErrSenders :
                /\ SubReturn(processMessageErr(i, tasks[i].msg))
                /\ tasks' = [tasks EXCEPT ![i].st = "reported"]
         ELSE /\ subPc' = "recv"
              /\ UNCHANGED <<subRet, socketCloses, tasks>>
    /\ UNCHANGED <<cancel, nRecv>>
    /\ UNCHANGED <<daemonVars, storeVars, histVars>>
    /\ UNCHANGED <<fileVars, codecVars>>

\* msg, err := z.socket.RecvMessageBytes(0) and what follows in the loop
\* body, in a run in which the socket delivers at most max messages.
RecvMessageBytes(max) ==
    /\ subPc = "recv"
    /\ recvDue' = IF (cancel \/ ErrSenders # {}) /\ recvDue < 2
                    THEN recvDue + 1 ELSE recvDue
    /\ \/ \* a message: go func() { processMessage(topic, payload) ... }()
          /\ nRecv < max
          /\ \E m \in Messages :
               tasks' = [tasks EXCEPT ![nRecv + 1] = [st |-> "run", msg |-> m]]
          /\ nRecv' = nRecv + 1
          /\ subPc' = "loop"
          /\ UNCHANGED <<subRet, socketCloses>>
       \/ \* EAGAIN (no message within the timeout) or EINTR: continue
          /\ subPc' = "loop"
          /\ UNCHANGED <<subRet, socketCloses, nRecv, tasks>>
       \/ \* any other error
          /\ SubReturn(ErrRecv)
          /\ UNCHANGED <<nRecv, tasks>>
    /\ UNCHANGED cancel
    /\ UNCHANGED <<daemonVars, storeVars, taken, applied, stopBeforeRun, stopClean,
                   dStopInLoop>>
    /\ UNCHANGED <<fileVars, codecVars>>

SubRecv == RecvMessageBytes(MaxMsgs)

\* The same step in the runs checked for liveness.
SubRecvLive == RecvMessageBytes(MaxLiveMsgs)

\* A decode goroutine that writes to the storage itself.
TaskDecodeStores(i) ==
    /\ tasks[i].st = "run"
    /\ tasks' = [tasks EXCEPT ![i].st = processMessageStep(tasks[i].msg)]
    /\ storeCallers' = storeCallers \cup {"decode goroutine"}
    /\ UNCHANGED <<cancel, subPc, subRet, socketCloses, nRecv>>
    /\ UNCHANGED <<daemonVars, rows, storeActive, histVars>>
    /\ UNCHANGED <<fileVars, codecVars>>

\* The decode goroutine of message i runs processMessage up to its send.
TaskDecode(i) ==
    /\ tasks[i].st = "run"
    /\ tasks' = [tasks EXCEPT ![i].st = processMessageStep(tasks[i].msg)]
    /\ UNCHANGED <<cancel, subPc, subRet, socketCloses, nRecv>>
    /\ UNCHANGED <<daemonVars, storeVars, histVars>>
    /\ UNCHANGED <<fileVars, codecVars>>

(***************************************************************************)
(* parseBlock in full, on one rawblock message.  In the pipeline above a   *)
(* rawblock payload is its outcome alone: body > 0 when parseBlock returns *)
(* a block.                                                                *)
(***************************************************************************)
\* Byte values of the data pushes: below 128, so that four of them make a
\* number TLC can hold.
ByteVals == {0, 103, 127}
\* The data a push opcode of a coinbase script carries.
Pushes == UNION {[1..n -> ByteVals] : n \in 0..MaxPushLen}
\* Pushes that follow the first one.
ExtraPushes == {<<>>, <<103>>}
\* A signature script: ok is whether txscript.PushedData can parse it, data
\* the pushed data items it returns.
Scripts ==
    {[ok |-> FALSE, data |-> <<>>]}
        \cup {[ok |-> TRUE, data |-> <<>>]}
        \cup {[ok |-> TRUE, data |-> <<p>>] : p \in Pushes}
        \cup {[ok |-> TRUE, data |-> <<p, q>>] : p \in Pushes, q \in ExtraPushes}
        \cup {[ok |-> TRUE, data |-> <<p, q, q>>] : p, q \in ExtraPushes}
\* A transaction of the block: coinbase is blockchain.IsCoinBaseTx(t), script
\* the SignatureScript of its first input.
NonCoinbase == [coinbase |-> FALSE, script |-> [ok |-> TRUE, data |-> <<>>]]
BlockTxs == {NonCoinbase} \cup [coinbase : {TRUE}, script : Scripts]
\* Transactions found next to the one under study.
OtherTxs ==
    {NonCoinbase,
     [coinbase |-> TRUE, script |-> [ok |-> TRUE, data |-> <<<<103, 0>>, <<>>>>]],
     [coinbase |-> TRUE, script |-> [ok |-> TRUE, data |-> <<<<103>>>>]]}
\* The payload of a rawblock message: frames is len(msg), decodes whether
\* wireBlock.BtcDecode accepts msg[0], txs the block's transactions.
RawBlocks ==
    [frames : {0, 1}, decodes : {FALSE}, txs : {<<>>}]
        \cup [frames : {2, 3}, decodes : {FALSE}, txs : {<<>>}]
        \cup [frames : {2}, decodes : {TRUE}, txs : {<<>>}]
        \cup {[frames |-> 2, decodes |-> TRUE, txs |-> <<t>>] : t \in BlockTxs}
        \cup {[frames |-> 2, decodes |-> TRUE, txs |-> <<t, u>>] :
                t \in BlockTxs, u \in OtherTxs}
        \cup {[frames |-> 3, decodes |-> TRUE, txs |-> <<u, t>>] :
                t \in BlockTxs, u \in OtherTxs}

ErrBtcDecode == <<"error during BtcDecode", 0>>
ErrParsingCoinbase == <<"error parsing coinbase", 0>>
ErrHeightNotFound == <<"height not found", 0>>

\* Padding on the left: the data is read as big-endian.
Pad4Left(heightLE) ==
    IF Len(heightLE) < 4
      THEN [k \in 1..(4 - Len(heightLE)) |-> 0] \o heightLE
      ELSE heightLE

\* for len(heightLE) < 4 { heightLE = append(heightLE, 0) }
Pad4(heightLE) ==
    IF Len(heightLE) < 4
      THEN heightLE \o [k \in 1..(4 - Len(heightLE)) |-> 0]
      ELSE heightLE

\* binary.LittleEndian.Uint32(b): the first four bytes of b.
Uint32(b) == b[1] + b[2] * 256 + b[3] * 65536 + b[4] * 16777216

\* parseHeight expecting one pushed data item.
parseHeightOnePush(script) ==
    IF ~script.ok THEN [ok |-> FALSE, height |-> -1]
    ELSE IF Len(script.data) # 1 THEN [ok |-> FALSE, height |-> -1]
    ELSE [ok |-> TRUE, height |-> Uint32(Pad4(script.data[1]))]

\* parseHeight(txin): [ok, height]; height is -1 with an error.
parseHeight(script) ==
    IF ~script.ok THEN [ok |-> FALSE, height |-> -1]
    ELSE IF Len(script.data) # 2 THEN [ok |-> FALSE, height |-> -1]
    ELSE [ok |-> TRUE, height |-> Uint32(Pad4(script.data[1]))]

\* The loop of parseBlock over wireBlock.Transactions from index k on, with
\* the height found so far: [err, height].
RECURSIVE parseBlockLoop(_, _, _)
parseBlockLoop(txs, k, height) ==
    IF k > Len(txs) THEN [err |-> Nil, height |-> height]
    ELSE IF txs[k].coinbase
      THEN IF parseHeight(txs[k].script).ok
             THEN parseBlockLoop(txs, k + 1, parseHeight(txs[k].script).height)
             ELSE [err |-> ErrParsingCoinbase, height |-> -1]
      ELSE parseBlockLoop(txs, k + 1, height)

\* parseBlock that returns the block whatever the height found.
DecodeBlockNoHeightCheck(msg) ==
    IF msg.frames < 2 THEN [err |-> Panic, height |-> -1]
    ELSE IF ~msg.decodes THEN [err |-> ErrBtcDecode, height |-> -1]
    ELSE parseBlockLoop(msg.txs, 1, -1)

\* parseBlock(firstSeen, msg): [err, height].  msg[1] is indexed before
\* anything else: with fewer than two frames the goroutine panics.
DecodeBlock(msg) ==
    IF msg.frames < 2 THEN [err |-> Panic, height |-> -1]
    ELSE IF ~msg.decodes THEN [err |-> ErrBtcDecode, height |-> -1]
    ELSE IF parseBlockLoop(msg.txs, 1, -1).err # Nil
      THEN parseBlockLoop(msg.txs, 1, -1)
    ELSE IF parseBlockLoop(msg.txs, 1, -1).height < 0
      THEN [err |-> ErrHeightNotFound, height |-> -1]
    ELSE parseBlockLoop(msg.txs, 1, -1)

NoBlock == [height |-> -1]
IdleTask == [st |-> "run", err |-> NoRet, block |-> NoBlock]

\* The decode goroutine of a rawblock message runs processMessage up to its
\* send: z.IncomingBlocks <- *block with the block of parseBlock, or
\* parseErrors <- err; a panic ends the process.
CodecProcessMessage ==
    /\ codecTask.st = "run"
    /\ codecTask' =
         LET r == DecodeBlock(wireBlock) IN
           IF r.err = Panic THEN [st |-> "panic", err |-> Panic, block |-> NoBlock]
           ELSE IF r.err # Nil THEN [st |-> "sendErr", err |-> r.err, block |-> NoBlock]
           ELSE [st |-> "sendBlock", err |-> Nil, block |-> [height |-> r.height]]
    /\ UNCHANGED <<wireBlock, rawTx, txTask, rows, pipelineVars, fileVars>>

\* len(rawtxwithfee) of the first frame: empty, the 8 bytes of a fee alone,
\* a fee after one byte, a fee after a transaction of 60 bytes.
RawTxLengths == {0, 8, 9, 68}

\* The payload of a rawtxwithfee message: frames is len(payload), length is
\* len(payload[0]) (0 without a first frame), decodes whether
\* wireTx.Deserialize accepts the bytes before the fee, txid the hash of the
\* transaction they hold.
RawTxs ==
    [frames : {0}, length : {0}, decodes : {FALSE}, txid : {0}]
        \cup [frames : {1, 2, 3}, length : {0, 8, 9}, decodes : {FALSE},
               txid : {0}]
        \cup [frames : {1, 2, 3}, length : {68}, decodes : {FALSE}, txid : {0}]
        \cup [frames : {1, 2, 3}, length : {68}, decodes : {TRUE}, txid : TxIds]

ErrPayloadLength(n) == <<"unexpected payload length", n>>
ErrRawTxLength == <<"unexpected rawtxwithfee length", 0>>
ErrDeserialize == <<"could not deserialize the rawtx as wire.MsgTx", 0>>

\* parseTransaction(firstSeen, payload): [err, txid].  len(payload) is
\* checked before payload[0] and payload[1] are read, and the length of the
\* first frame before it is sliced.
DecodeTransaction(payload) ==
    IF payload.frames # 2
      THEN [err |-> ErrPayloadLength(payload.frames), txid |-> 0]
    ELSE IF payload.length <= 8 THEN [err |-> ErrRawTxLength, txid |-> 0]
    ELSE IF ~payload.decodes THEN [err |-> ErrDeserialize, txid |-> 0]
    ELSE [err |-> Nil, txid |-> payload.txid]

NoRawTx == [frames |-> 2, length |-> 0, decodes |-> FALSE, txid |-> 0]
IdleTxTask == [st |-> "run", err |-> NoRet, txid |-> 0]

\* The decode goroutine of a rawtxwithfee message runs processMessage up to
\* its send: z.IncomingTx <- *tx with the transaction of parseTransaction,
\* or parseErrors <- err.
CodecProcessTxMessage ==
    /\ txTask.st = "run"
    /\ txTask' =
         LET r == DecodeTransaction(rawTx) IN
           IF r.err # Nil THEN [st |-> "sendErr", err |-> r.err, txid |-> 0]
           ELSE [st |-> "sendTx", err |-> Nil, txid |-> r.txid]
    /\ UNCHANGED <<wireBlock, codecTask, rawTx, rows, pipelineVars, fileVars>>

(***************************************************************************)
(* Package storage                                                         *)
(***************************************************************************)

\* The database file at the path given to NewStorage, as one value.
DbFile == [exists |-> dbExists, tables |-> dbTables, config |-> dbConfig,
           rows |-> rows]

\* s.db.Exec of the k-th statement of initialize on database d: CREATE TABLE
\* config, INSERT INTO config (version), then CREATE TABLE "transaction",
\* "block" and transaction_block.  Every statement is committed on its own.
Exec(d, k, version) ==
    CASE k = 1 -> [d EXCEPT !.exists = TRUE, !.tables = @ \cup {Tables[1]}]
      [] k = 2 -> [d EXCEPT !.config = Append(@, version)]
      [] OTHER -> [d EXCEPT !.tables = @ \cup {Tables[k - 1]}]

NumStmts == Len(Tables) + 1

\* The database after the first k statements of initialize.
RECURSIVE ExecUpTo(_, _, _)
ExecUpTo(d, k, version) ==
    IF k = 0 THEN d ELSE Exec(ExecUpTo(d, k - 1, version), k, version)

\* Storage.initialize: the outcomes [err, db].  The k-th statement may fail;
\* the statements before it stay applied.  When the first one fails the
\* file may have been created, empty, or not.
initialize(d, version) ==
    {[err |-> Nil, db |-> ExecUpTo(d, NumStmts, version)]}
        \cup {[err |-> ErrInitialize(k), db |-> ExecUpTo(d, k - 1, version)] :
                k \in 1..NumStmts}
        \cup {[err |-> ErrInitialize(1), db |-> [d EXCEPT !.exists = TRUE]]}

\* Storage.getVersion panics when row.Scan fails: no table config (or no
\* database in the file at all), or no row in it.
getVersionPanics(d) == Tables[1] \notin d.tables \/ d.config = <<>>
\* Storage.getVersion: the version of the first row of config.
getVersion(d) == d.config[1]

\* migrate that accepts every version.
migrateAny(fromVersion) == Nil

\* Storage.migrate
migrate(fromVersion) ==
    IF fromVersion = currentVersion THEN Nil ELSE ErrMigrate(fromVersion)

NoOpen == [kind |-> "none", err |-> NoRet]
NoRes == [op |-> "none", txid |-> 0, err |-> NoRet, count |-> 0]

\* What a NewStorage call leaves behind: the file d, the outcome and,
\* when it returned a *Storage, the open handle.
NewStorageReturn(d, kind, err) ==
    /\ dbExists' = d.exists
    /\ dbTables' = d.tables
    /\ dbConfig' = d.config
    /\ rows' = d.rows
    /\ openRes' = [kind |-> kind, err |-> err]
    /\ storePc' = IF kind = "ok" THEN "open" ELSE storePc

\* Storage.AddTransaction: the possible outcomes [err, rows] of inserting
\* the transaction of message i with TxID txid.  txid is UNIQUE in table
\* "transaction".
AddTransaction(r, i, txid) ==
    IF txid \in r
      THEN {[err |-> ErrDuplicateKey(i), rows |-> r]}
      ELSE {[err |-> Nil, rows |-> r \cup {txid}],
            [err |-> ErrStorage(i), rows |-> r]}

\* TxCount over a column the insert leaves NULL:
\* SELECT COUNT(last_removed) FROM "transaction".
TxCountLastRemoved(tabs, r) ==
    (IF Tables[2] \in tabs THEN {[count |-> 0, err |-> Nil]} ELSE {})
        \cup {[count |-> 0, err |-> ErrTxCount]}

\* Storage.TxCount: SELECT COUNT(txid) FROM "transaction".  The outcomes
\* [count, err]: the query fails when the table is missing, and may fail
\* for a reason outside the program; count is then 0.
TxCount(tabs, r) ==
    (IF Tables[2] \in tabs
       THEN {[count |-> Cardinality(r), err |-> Nil]} ELSE {})
        \cup {[count |-> 0, err |-> ErrTxCount]}

\* NewStorage(path), called while the caller holds no open Storage.
NewStorage ==
    /\ storePc # "open"
    /\ nOpens < MaxOpens
    /\ nOpens' = nOpens + 1
    /\ \/ \* os.Stat fails other than with IsNotExist, or sql.Open fails
          \E e \in {ErrStat, ErrSqlOpen} : NewStorageReturn(DbFile, "error", e)
       \/ \* no file: init = true; s.initialize(currentVersion)
          /\ ~dbExists
          /\ \E o \in initialize(DbFile, currentVersion) :
               NewStorageReturn(o.db, IF o.err = Nil THEN "ok" ELSE "error", o.err)
       \/ \* a file: s.migrate(s.getVersion())
          /\ dbExists
          /\ IF getVersionPanics(DbFile)
               THEN NewStorageReturn(DbFile, "panic", Panic)
               ELSE NewStorageReturn(DbFile,
                        IF migrate(getVersion(DbFile)) = Nil THEN "ok" ELSE "error",
                        migrate(getVersion(DbFile)))
    /\ storeRes' = NoRes
    /\ UNCHANGED <<inserted, pipelineVars, codecVars>>

\* s.AddTransaction(tx) on the open Storage, for a transaction with TxID
\* txid.  The insert fails when table "transaction" is missing.
StoreAddTransaction(txid) ==
    /\ storePc = "open"
    /\ \E o \in (IF Tables[2] \in dbTables
                   THEN AddTransaction(rows, 0, txid)
                   ELSE {[err |-> ErrStorage(0), rows |-> rows]}) :
         /\ rows' = o.rows
         /\ storeRes' = [op |-> "AddTransaction", txid |-> txid, err |-> o.err,
                         count |-> 0]
         /\ inserted' = IF o.err = Nil THEN inserted \cup {txid} ELSE inserted
    /\ UNCHANGED <<dbExists, dbTables, dbConfig, storePc, openRes, nOpens>>
    /\ UNCHANGED <<pipelineVars, codecVars>>

\* s.TxCount() on the open Storage.
StoreTxCount ==
    /\ storePc = "open"
    /\ \E o \in TxCount(dbTables, rows) :
         storeRes' = [op |-> "TxCount", txid |-> 0, err |-> o.err,
                      count |-> o.count]
    /\ UNCHANGED <<dbExists, dbTables, dbConfig, storePc, openRes, nOpens, inserted>>
    /\ UNCHANGED <<rows, pipelineVars, codecVars>>

\* s.Close() on the open Storage.
StoreClose ==
    /\ storePc = "open"
    /\ storePc' = "closed"
    /\ UNCHANGED <<dbExists, dbTables, dbConfig, openRes, storeRes, nOpens, inserted>>
    /\ UNCHANGED <<rows, pipelineVars, codecVars>>

(***************************************************************************)
(* Package daemon                                                          *)
(***************************************************************************)

InLoop == dPc \in {"select", "inAdd", "inCount"}

\* The value a read of zmqSubErr yields.  The goroutine's write and the
\* loop's read are not ordered unless the quit value received is the
\* goroutine's own: a read during the write sees the old value, the new
\* one, or a mix of the two words of the interface.
ReadZmqSubErr ==
    IF gPc = "storing" /\ subRet # zmqSubErr
      THEN {zmqSubErr, subRet, Torn}
      ELSE {zmqSubErr}

\* BademeisterDaemon.Run up to its loop: go func() { ... }()
DaemonStart ==
    /\ dPc = "idle"
    /\ dPc' = "select"
    /\ gPc' = "spawned"
    /\ UNCHANGED <<dRet, curTx, zmqSubErr, quit, stopCalls, stopPending>>
    /\ UNCHANGED <<subVars, storeVars, histVars>>
    /\ UNCHANGED <<fileVars, codecVars>>

\* The goroutine calls b.zmqSub.Run().
GoRun ==
    /\ gPc = "spawned"
    /\ subPc = "idle"
    /\ gPc' = "run"
    /\ subPc' = "settimeo"
    /\ UNCHANGED <<cancel, subRet, socketCloses, nRecv, tasks>>
    /\ UNCHANGED <<dPc, dRet, curTx, zmqSubErr, quit, stopCalls, stopPending>>
    /\ UNCHANGED <<storeVars, histVars>>
    /\ UNCHANGED <<fileVars, codecVars>>

\* zmqSubErr = <value returned by Run>: the write begins ...
GoAssignBegin ==
    /\ gPc = "run"
    /\ subPc = "done"
    /\ gPc' = "storing"
    /\ UNCHANGED <<dPc, dRet, curTx, zmqSubErr, quit, stopCalls, stopPending>>
    /\ UNCHANGED <<subVars, storeVars, histVars>>
    /\ UNCHANGED <<fileVars, codecVars>>

\* ... and is complete.
GoAssignEnd ==
    /\ gPc = "storing"
    /\ zmqSubErr' = subRet
    /\ gPc' = "stop"
    /\ UNCHANGED <<dPc, dRet, curTx, quit, stopCalls, stopPending>>
    /\ UNCHANGED <<subVars, storeVars, histVars>>
    /\ UNCHANGED <<fileVars, codecVars>>

\* b.Stop() of the goroutine: b.quit <- struct{}{}
GoStop ==
    /\ gPc = "stop"
    /\ quit < QuitCap
    /\ quit' = quit + 1
    /\ gPc' = "done"
    /\ UNCHANGED <<dPc, dRet, curTx, zmqSubErr, stopCalls, stopPending>>
    /\ UNCHANGED <<subVars, storeVars, histVars>>
    /\ UNCHANGED <<fileVars, codecVars>>

\* BademeisterDaemon.Stop() called from outside the daemon, in a run with at
\* most max such calls: b.quit <- struct{}{} completes when the channel has
\* room, and blocks the caller otherwise.
DaemonStop(max) ==
    /\ stopCalls < max
    /\ stopCalls' = stopCalls + 1
    /\ IF quit < QuitCap
         THEN /\ quit' = quit + 1
              /\ UNCHANGED stopPending
         ELSE /\ stopPending' = stopPending + 1
              /\ UNCHANGED quit
    /\ dStopInLoop' = (dStopInLoop \/ InLoop)
    /\ UNCHANGED <<dPc, dRet, curTx, zmqSubErr, gPc>>
    /\ UNCHANGED <<subVars, storeVars, taken, applied, stopBeforeRun, stopClean,
                   recvDue>>
    /\ UNCHANGED <<fileVars, codecVars>>

ExtStop == DaemonStop(MaxStops)

\* The same call in the runs checked for the callers of Stop().
ExtStopLive == DaemonStop(MaxLiveStops)

\* A blocked Stop() caller's send completes; Stop() returns.
ExtStopUnblock ==
    /\ stopPending > 0
    /\ quit < QuitCap
    /\ quit' = quit + 1
    /\ stopPending' = stopPending - 1
    /\ UNCHANGED <<dPc, dRet, curTx, zmqSubErr, gPc, stopCalls>>
    /\ UNCHANGED <<subVars, storeVars, histVars>>
    /\ UNCHANGED <<fileVars, codecVars>>

\* case <-b.quit: break -- which leaves the select, not the loop.
DaemonRecvQuitBreak ==
    /\ dPc = "select"
    /\ quit > 0
    /\ quit' = quit - 1
    /\ UNCHANGED <<dPc, dRet, curTx, zmqSubErr, gPc, stopCalls, stopPending>>
    /\ UNCHANGED <<subVars, storeVars, histVars>>
    /\ UNCHANGED <<fileVars, codecVars>>

\* case <-b.quit: b.zmqSub.Stop(); return zmqSubErr
DaemonRecvQuitStopsSubscriber ==
    /\ dPc = "select"
    /\ quit > 0
    /\ quit' = quit - 1
    /\ \E v \in ReadZmqSubErr : dRet' = v
    /\ dPc' = "returned"
    /\ cancel' = TRUE
    /\ UNCHANGED <<curTx, zmqSubErr, gPc, stopCalls, stopPending>>
    /\ UNCHANGED <<subPc, subRet, socketCloses, nRecv, tasks>>
    /\ UNCHANGED <<storeVars, histVars>>
    /\ UNCHANGED <<fileVars, codecVars>>

\* case <-b.quit: return zmqSubErr
DaemonRecvQuit ==
    /\ dPc = "select"
    /\ quit > 0
    /\ quit' = quit - 1
    /\ \E v \in ReadZmqSubErr : dRet' = v
    /\ dPc' = "returned"
    /\ UNCHANGED <<curTx, zmqSubErr, gPc, stopCalls, stopPending>>
    /\ UNCHANGED <<subVars, storeVars, histVars>>
    /\ UNCHANGED <<fileVars, codecVars>>

\* A receive that leaves the sending goroutine blocked with its record.
DaemonRecvTxNoAck(i) ==
    /\ dPc = "select"
    /\ tasks[i].st = "sendTx"
    /\ taken' = Append(taken, i)
    /\ curTx' = i
    /\ dPc' = "inAdd"
    /\ storeActive' = storeActive + 1
    /\ storeCallers' = storeCallers \cup {"daemon"}
    /\ applied' = Append(applied, [msg |-> i, err |-> NoRet])
    /\ UNCHANGED <<dRet, zmqSubErr, gPc, quit, stopCalls, stopPending>>
    /\ UNCHANGED <<subVars, rows>>
    /\ UNCHANGED <<stopBeforeRun, stopClean, recvDue, dStopInLoop>>
    /\ UNCHANGED <<fileVars, codecVars>>

\* A loop that puts the transaction received in front of those waiting to
\* be stored.
DaemonRecvTxPrepend(i) ==
    /\ dPc = "select"
    /\ tasks[i].st = "sendTx"
    /\ tasks' = [tasks EXCEPT ![i].st = "done"]
    /\ taken' = Append(taken, i)
    /\ curTx' = i
    /\ dPc' = "inAdd"
    /\ storeActive' = storeActive + 1
    /\ storeCallers' = storeCallers \cup {"daemon"}
    /\ applied' = <<[msg |-> i, err |-> NoRet]>> \o applied
    /\ UNCHANGED <<dRet, zmqSubErr, gPc, quit, stopCalls, stopPending>>
    /\ UNCHANGED <<cancel, subPc, subRet, socketCloses, nRecv, rows>>
    /\ UNCHANGED <<stopBeforeRun, stopClean, recvDue, dStopInLoop>>
    /\ UNCHANGED <<fileVars, codecVars>>

\* case tx := <-b.zmqSub.IncomingTx, completing the send of the decode
\* goroutine of message i; b.processTransaction(&tx) enters
\* b.storage.AddTransaction(tx).
DaemonRecvTx(i) ==
    /\ dPc = "select"
    /\ tasks[i].st = "sendTx"
    /\ tasks' = [tasks EXCEPT ![i].st = "done"]
    /\ taken' = Append(taken, i)
    /\ curTx' = i
    /\ dPc' = "inAdd"
    /\ storeActive' = storeActive + 1
    /\ storeCallers' = storeCallers \cup {"daemon"}
    /\ applied' = Append(applied, [msg |-> i, err |-> NoRet])
    /\ UNCHANGED <<dRet, zmqSubErr, gPc, quit, stopCalls, stopPending>>
    /\ UNCHANGED <<cancel, subPc, subRet, socketCloses, nRecv, rows>>
    /\ UNCHANGED <<stopBeforeRun, stopClean, recvDue, dStopInLoop>>
    /\ UNCHANGED <<fileVars, codecVars>>

\* b.dumpStats() enters b.storage.TxCount().
dumpStatsBegin ==
    /\ dPc' = "inCount"
    /\ storeActive' = storeActive + 1
    /\ storeCallers' = storeCallers \cup {"daemon"}

\* An error of processTransaction that is logged and not returned.
AfterProcessTransactionIgnore(err) ==
    /\ dPc' = "inCount"
    /\ dRet' = dRet
    /\ storeActive' = (storeActive - 1) + 1
    /\ storeCallers' = storeCallers \cup {"daemon"}

\* What Run does with the error err of processTransaction: a non-nil error
\* is returned, nil leads on to dumpStats.
AfterProcessTransaction(err) ==
    IF err # Nil
      THEN /\ dPc' = "returned"
           /\ dRet' = err
           /\ storeActive' = storeActive - 1
           /\ UNCHANGED storeCallers
      ELSE /\ dPc' = "inCount"
           /\ dRet' = dRet
           /\ storeActive' = (storeActive - 1) + 1
           /\ storeCallers' = storeCallers \cup {"daemon"}

\* b.storage.AddTransaction(tx) returns to processTransaction and Run.
DaemonAddTransaction ==
    /\ dPc = "inAdd"
    /\ \E o \in AddTransaction(rows, curTx, parseTransaction(tasks[curTx].msg.body)) :
         /\ rows' = o.rows
         /\ applied' = [applied EXCEPT ![Len(applied)].err = o.err]
         /\ AfterProcessTransaction(o.err)
    /\ curTx' = 0
    /\ UNCHANGED <<zmqSubErr, gPc, quit, stopCalls, stopPending>>
    /\ UNCHANGED <<subVars, taken, stopBeforeRun, stopClean, recvDue, dStopInLoop>>
    /\ inserted' = inserted \cup rows'
    /\ UNCHANGED <<dbExists, dbTables, dbConfig, storePc, openRes, storeRes, nOpens>>
    /\ UNCHANGED codecVars

\* case block := <-b.zmqSub.IncomingBlocks, completing the send of the
\* decode goroutine of message i; b.processBlock(&block) returns nil and
\* b.dumpStats() is entered.
DaemonRecvBlock(i) ==
    /\ dPc = "select"
    /\ tasks[i].st = "sendBlock"
    /\ tasks' = [tasks EXCEPT ![i].st = "done"]
    /\ taken' = Append(taken, i)
    /\ dumpStatsBegin
    /\ UNCHANGED <<dRet, curTx, zmqSubErr, gPc, quit, stopCalls, stopPending>>
    /\ UNCHANGED <<cancel, subPc, subRet, socketCloses, nRecv, rows>>
    /\ UNCHANGED <<applied, stopBeforeRun, stopClean, recvDue, dStopInLoop>>
    /\ UNCHANGED <<fileVars, codecVars>>

\* b.storage.TxCount() returns; dumpStats logs the count and the loop
\* goes round.
DaemonStatsEnd ==
    /\ dPc = "inCount"
    /\ \E o \in TxCount(dbTables, rows) : o.count \in Nat
    /\ dPc' = "select"
    /\ storeActive' = storeActive - 1
    /\ UNCHANGED <<dRet, curTx, zmqSubErr, gPc, quit, stopCalls, stopPending>>
    /\ UNCHANGED <<subVars, rows, storeCallers, histVars>>
    /\ UNCHANGED <<fileVars, codecVars>>

\* BademeisterDaemon.Close(), called by the owner of the daemon once Run
\* has returned: b.storage.Close().
DaemonClose ==
    /\ dPc = "returned"
    /\ storePc = "open"
    /\ storePc' = "closed"
    /\ storeCallers' = storeCallers \cup {"daemon"}
    /\ UNCHANGED <<dbExists, dbTables, dbConfig, openRes, storeRes, nOpens, inserted>>
    /\ UNCHANGED <<subVars, daemonVars, rows, storeActive, histVars, codecVars>>

(***************************************************************************)
(* The pipeline.                                                           *)
(***************************************************************************)
\* The pipeline before BademeisterDaemon.Run is called.
PipelineIdle ==
    /\ cancel = FALSE
    /\ subPc = "idle"
    /\ subRet = NoRet
    /\ socketCloses = 0
    /\ nRecv = 0
    /\ tasks = [i \in MsgIds |-> [st |-> "none", msg |-> NoMsg]]
    /\ dPc = "idle"
    /\ dRet = NoRet
    /\ curTx = 0
    /\ zmqSubErr = Nil
    /\ gPc = "none"
    /\ quit = 0
    /\ stopCalls = 0
    /\ stopPending = 0
    /\ storeActive = 0
    /\ storeCallers = {}
    /\ taken = <<>>
    /\ applied = <<>>
    /\ stopBeforeRun = FALSE
    /\ stopClean = FALSE
    /\ recvDue = 0
    /\ dStopInLoop = FALSE

\* No message under study.
NoRawBlock == [frames |-> 2, decodes |-> FALSE, txs |-> <<>>]

CodecIdle ==
    /\ wireBlock = NoRawBlock
    /\ codecTask = IdleTask
    /\ rawTx = NoRawTx
    /\ txTask = IdleTxTask

\* NewBademeisterDaemon has returned a daemon: its Storage is open on a
\* database created at currentVersion.
Init ==
    /\ PipelineIdle
    /\ rows = {}
    /\ dbExists = TRUE
    /\ dbTables = TableSet
    /\ dbConfig = <<currentVersion>>
    /\ storePc = "open"
    /\ openRes = [kind |-> "ok", err |-> Nil]
    /\ storeRes = NoRes
    /\ nOpens = 1
    /\ inserted = {}
    /\ CodecIdle

\* The steps other than a receive from the socket and a call of
\* BademeisterDaemon.Stop() from outside.
CoreSteps ==
    \/ SubStop
    \/ SubSetRcvtimeo
    \/ SubLoop
    \/ SubSelect
    \/ \E i \in MsgIds : TaskDecode(i)
    \/ DaemonStart
    \/ GoRun
    \/ GoAssignBegin
    \/ GoAssignEnd
    \/ GoStop
    \/ ExtStopUnblock
    \/ DaemonRecvQuit
    \/ \E i \in MsgIds : DaemonRecvTx(i)
    \/ DaemonAddTransaction
    \/ \E i \in MsgIds : DaemonRecvBlock(i)
    \/ DaemonStatsEnd
    \/ DaemonClose

Steps == ExtStop \/ CoreSteps

Next == SubRecv \/ Steps

Spec == Init /\ [][Next]_vars

(***************************************************************************)
(* Scheduling.  Every goroutine that can take a step eventually takes one; *)
(* a select with several ready cases picks among them at random, so a case *)
(* that is ready again and again is eventually picked.  Nothing is assumed *)
(* of the environment: messages, socket faults and calls of Stop() may or  *)
(* may not come.                                                           *)
(***************************************************************************)
Fairness ==
    /\ WF_vars(SubSetRcvtimeo)
    /\ WF_vars(SubLoop)
    /\ WF_vars(SubSelect)
    /\ WF_vars(SubRecvLive)
    /\ \A i \in MsgIds : WF_vars(TaskDecode(i))
    /\ WF_vars(GoRun)
    /\ WF_vars(GoAssignBegin)
    /\ WF_vars(GoAssignEnd)
    /\ WF_vars(GoStop)
    /\ WF_vars(ExtStopUnblock)
    /\ SF_vars(DaemonRecvQuit)
    /\ WF_vars(DaemonAddTransaction)
    /\ WF_vars(DaemonStatsEnd)

FairNext == SubRecvLive \/ Steps

FairSpec == Init /\ [][FairNext]_vars /\ Fairness

\* The runs checked for the callers of Stop(), under the same scheduling.
StopNext == SubRecvLive \/ ExtStopLive \/ CoreSteps

StopSpec == Init /\ [][StopNext]_vars /\ Fairness

(***************************************************************************)
(* The Storage on its own: any sequence of NewStorage, AddTransaction,     *)
(* TxCount and Close on one database path, which starts without a file or  *)
(* with a database written at some schema version.                         *)
(***************************************************************************)
StoreInit ==
    /\ PipelineIdle
    /\ \/ /\ dbExists = FALSE
          /\ dbTables = {}
          /\ dbConfig = <<>>
          /\ rows = {}
       \/ /\ dbExists = TRUE
          /\ dbTables = TableSet
          /\ dbConfig \in {<<v>> : v \in Versions}
          /\ rows \in SUBSET TxIds
    /\ storePc = "none"
    /\ openRes = NoOpen
    /\ storeRes = NoRes
    /\ nOpens = 0
    /\ inserted = rows
    /\ CodecIdle

StoreNext ==
    \/ NewStorage
    \/ \E txid \in TxIds : StoreAddTransaction(txid)
    \/ StoreTxCount
    \/ StoreClose

StoreSpec == StoreInit /\ [][StoreNext]_vars

(***************************************************************************)
(* processMessage on one message: a rawblock or a rawtxwithfee message,    *)
(* with the goroutine of the other topic absent.                           *)
(***************************************************************************)
CodecInit ==
    /\ PipelineIdle
    /\ rows = {}
    /\ dbExists = TRUE
    /\ dbTables = TableSet
    /\ dbConfig = <<currentVersion>>
    /\ storePc = "open"
    /\ openRes = [kind |-> "ok", err |-> Nil]
    /\ storeRes = NoRes
    /\ nOpens = 1
    /\ inserted = {}
    /\ \/ /\ wireBlock \in RawBlocks
          /\ codecTask = IdleTask
          /\ rawTx = NoRawTx
          /\ txTask = [IdleTxTask EXCEPT !.st = "none"]
       \/ /\ rawTx \in RawTxs
          /\ txTask = IdleTxTask
          /\ wireBlock = NoRawBlock
          /\ codecTask = [IdleTask EXCEPT !.st = "none"]

CodecNext == CodecProcessMessage \/ CodecProcessTxMessage

CodecSpec == CodecInit /\ [][CodecNext]_vars

(***************************************************************************)
(* Properties.                                                             *)
(***************************************************************************)
IsStoreErr(e) == e[1] \in {"DuplicateKey", "StorageError"}
IsErr(e) == e \notin {NoRet, Nil}
\* Number of AddTransaction calls made for message i.
AddCalls(i) == Cardinality({k \in 1..Len(applied) : applied[k].msg = i})
\* Number of times the daemon loop received the record of message i.
Takes(i) == Cardinality({k \in 1..Len(taken) : taken[k] = i})
\* The decode goroutine of message i has produced a record.
Produced(i) ==
    /\ tasks[i].st \notin {"none", "run"}
    /\ \/ /\ tasks[i].msg.topic = topicRawTxWithFee
          /\ parseTransaction(tasks[i].msg.body) # 0
       \/ /\ tasks[i].msg.topic = topicRawBlock
          /\ parseBlock(tasks[i].msg.body)
SubReturns == subPc # "done" /\ subPc' = "done"
DaemonReturns == dPc # "returned" /\ dPc' = "returned"

\* C1 as stated: once Stop() has been called with no message in flight, Run
\* makes at most one further receive attempt and returns nil; when Stop()
\* preceded Run, no receive is attempted and no message received.
C1_AsStated ==
    stopClean =>
        /\ recvDue <= 1
        /\ subPc = "done" => subRet = Nil
        /\ stopBeforeRun => (recvDue = 0 /\ nRecv = 0)

\* C1 amended: as C1, except that Run returns the socket's error instead of
\* nil when setting the receive timeout fails or the one further receive
\* attempt fails with an error other than EAGAIN and EINTR.
C1_StopReturns ==
    stopClean =>
        /\ recvDue <= 1
        /\ subPc = "done" => subRet \in {Nil, ErrSetRcvtimeo, ErrRecv}
        /\ stopBeforeRun =>
             /\ recvDue = 0 /\ nRecv = 0
             /\ subPc = "done" => subRet \in {Nil, ErrSetRcvtimeo}

\* C1 witness: Stop() was called during the loop with nothing in flight, one
\* more receive was attempted and Run returned nil.
C1_Witness ==
    /\ stopClean /\ ~stopBeforeRun
    /\ recvDue = 1
    /\ subPc = "done" /\ subRet = Nil

\* C2 as stated: when Run returns while decode goroutines are waiting to
\* report an error, it returns the error of each of them (and so never nil).
C2_AsStated ==
    [][SubReturns =>
         \A i \in ErrSenders : subRet' = processMessageErr(i, tasks[i].msg)]_vars

\* C2 amended: when Run returns while decode goroutines are waiting to report
\* an error, it returns the error of one of them, or nil if Stop() was
\* called, or the receive error of a failed receive; and with an error
\* waiting it makes at most one further receive attempt.
C2_ReturnsDecodeError ==
    /\ [][(SubReturns /\ ErrSenders # {}) =>
            \/ \E i \in ErrSenders : subRet' = processMessageErr(i, tasks[i].msg)
            \/ cancel /\ subRet' = Nil
            \/ subRet' = ErrRecv]_vars
    /\ [](recvDue <= 1)

\* C2 witness: a decode goroutine failed on an unknown topic and Run
\* returned its error, Stop() not having been called.
C2_Witness ==
    /\ subPc = "done" /\ ~cancel
    /\ \E i \in MsgIds :
         /\ tasks[i].st = "reported"
         /\ tasks[i].msg.topic = topicOther
         /\ subRet = ErrUnknownTopic(i)

\* C3: the socket has been closed exactly once when Run has returned, and
\* not at all before.
C3_SocketClosedOnce ==
    /\ subPc = "done" => socketCloses = 1
    /\ subPc # "done" => socketCloses = 0

\* C3 witness: Run has returned a decode error with the socket closed once.
C3_Witness ==
    /\ subPc = "done" /\ socketCloses = 1
    /\ \E i \in MsgIds : subRet = ErrMalformedBlock(i)

\* C4: an AddTransaction call that returned an error is the last call made,
\* and Daemon.Run has returned that error.
C4_StoreErrorFatal ==
    \A k \in 1..Len(applied) :
        IsErr(applied[k].err) =>
            /\ k = Len(applied)
            /\ dPc = "returned"
            /\ dRet = applied[k].err

\* C4 witness: the second AddTransaction failed and Run returned its error.
C4_Witness ==
    /\ Len(applied) = 2
    /\ applied[1].err = Nil
    /\ IsStoreErr(applied[2].err)
    /\ dPc = "returned" /\ dRet = applied[2].err

\* C5: once Daemon.Run has returned a Store error the subscriber's Run
\* eventually returns, and once the subscriber's Run has returned an error
\* Daemon.Run eventually returns.
C5_WholePipelineEnds ==
    /\ (dPc = "returned" /\ IsStoreErr(dRet)) ~> (subPc = "done")
    /\ (subPc = "done" /\ IsErr(subRet)) ~> (dPc = "returned")

\* The second half of C5 alone.
DaemonEndsAfterSubscriberError ==
    (subPc = "done" /\ IsErr(subRet)) ~> (dPc = "returned")

\* C6 as stated: when Daemon.Run has returned, every message decoded into a
\* Transaction has been passed to AddTransaction exactly once.
C6_AsStated ==
    dPc = "returned" => \A i \in MsgIds :
        (Produced(i) /\ tasks[i].msg.topic = topicRawTxWithFee) => AddCalls(i) = 1

\* C6 amended: a Transaction is passed to AddTransaction exactly once if the
\* daemon loop has taken it from the queue and never otherwise; a decoded
\* Transaction not taken stays with its blocked decode goroutine.
C6_TakenOnceAppliedOnce ==
    \A i \in MsgIds :
        /\ AddCalls(i) <= 1
        /\ tasks[i].msg.topic = topicRawTxWithFee => AddCalls(i) = Takes(i)
        /\ AddCalls(i) = 1 <=>
             (tasks[i].st = "done" /\ tasks[i].msg.topic = topicRawTxWithFee)
        /\ (Produced(i) /\ tasks[i].msg.topic = topicRawTxWithFee /\ AddCalls(i) = 0)
              => tasks[i].st = "sendTx"

\* C6 witness: Daemon.Run has returned with one Transaction applied and
\* another decoded one still waiting to be delivered.
C6_Witness ==
    /\ dPc = "returned"
    /\ \E i, j \in MsgIds :
         /\ AddCalls(i) = 1
         /\ tasks[j].st = "sendTx" /\ AddCalls(j) = 0

\* C7: at most one Storage operation is in progress, it is the daemon
\* loop's, and no other context has ever called the Storage.
C7_SingleWriter ==
    /\ storeActive <= 1
    /\ storeActive = 1 <=> dPc \in {"inAdd", "inCount"}
    /\ storeCallers \subseteq {"daemon"}

\* C7 witness: AddTransaction is in progress while the receive loop runs and
\* a decode goroutine is blocked with a record.
C7_Witness ==
    /\ dPc = "inAdd" /\ storeActive = 1
    /\ subPc \in {"loop", "select", "recv"}
    /\ \E i \in MsgIds : tasks[i].st \in {"sendTx", "sendBlock"}

\* C8: a decode goroutine that has produced a record has finished exactly
\* when the daemon loop has taken the record (once), and is blocked in its
\* send until then.
C8_BlockingHandoff ==
    \A i \in MsgIds : Produced(i) =>
        \/ /\ tasks[i].st = "done"
           /\ Takes(i) = 1
        \/ /\ tasks[i].st = processMessageStep(tasks[i].msg)
           /\ tasks[i].st \in {"sendTx", "sendBlock"}
           /\ Takes(i) = 0

\* C8 witness: one record taken, its goroutine finished, and another record
\* held by its blocked goroutine.
C8_Witness ==
    \E i, j \in MsgIds :
        /\ Produced(i) /\ tasks[i].st = "done" /\ Takes(i) = 1
        /\ Produced(j) /\ tasks[j].st = "sendBlock" /\ Takes(j) = 0

\* C9 as stated, its bound: after a Stop() called while Run is in its loop,
\* the loop takes no further event from the queues.
C9_AsStated ==
    [][dStopInLoop => taken' = taken]_vars

\* C9 amended: after a Stop() called while Run is in its loop, Run
\* eventually returns (the select may take events from the queues first).
C9_StopEndsRun ==
    (dStopInLoop /\ InLoop) ~> (dPc = "returned")

\* C9 witness: Stop() was called while Run was in its loop, and Run has
\* returned nil after taking an event.
C9_Witness ==
    /\ dStopInLoop
    /\ dPc = "returned" /\ dRet = Nil
    /\ Len(taken) = 1

\* C10: when Daemon.Run returns after the subscriber's Run has ended with an
\* error, and not because of a Store error, it returns the subscriber's
\* error.
C10_SubscriberErrorReturned ==
    [][(DaemonReturns /\ subPc = "done" /\ IsErr(subRet) /\ ~IsStoreErr(dRet'))
          => dRet' = subRet]_vars

\* C10 without calls of Stop() from outside the daemon.
SubscriberErrorReturnedUnlessStopped ==
    [][(DaemonReturns /\ subPc = "done" /\ IsErr(subRet) /\ ~IsStoreErr(dRet')
          /\ stopCalls = 0) => dRet' = subRet]_vars

\* A NewStorage call.
OpenStep == nOpens' = nOpens + 1
\* The file holds a database with a stored schema version.
HasVersion == dbExists /\ ~getVersionPanics(DbFile)
FileUnchanged ==
    <<dbExists, dbTables, dbConfig, rows>>' = <<dbExists, dbTables, dbConfig, rows>>
\* An AddTransaction call (one that repeats the call before it with the
\* same outcome leaves every variable as it is).
AddStep ==
    /\ storeRes'.op = "AddTransaction"
    /\ <<storeRes, rows>>' # <<storeRes, rows>>

C12_OpenedStoreHasSchema ==
    /\ [][(OpenStep /\ ~dbExists /\ openRes'.kind = "ok") => rows' = {}]_vars
    /\ [](storePc = "open" =>
            (dbTables = TableSet /\ dbConfig = <<currentVersion>>))

\* The first half of C12 alone: NewStorage on a path without a file, when
\* it returns a Storage, has created the four tables and the one config row
\* of version 5, and no transaction.
FreshOpenCreatesSchema ==
    [][(OpenStep /\ ~dbExists /\ openRes'.kind = "ok") =>
         /\ dbExists' /\ dbTables' = TableSet /\ dbConfig' = <<currentVersion>>
         /\ rows' = {}
         /\ [count |-> 0, err |-> Nil] \in TxCount(dbTables', rows')]_vars

\* C13 as stated: an AddTransaction of a stored TxID fails with DuplicateKey
\* and leaves the rows, an AddTransaction of a new TxID adds one row; and
\* TxCount returns the number of distinct TxIDs inserted.
C13_AsStated ==
    /\ [][AddStep =>
            IF storeRes'.txid \in rows
              THEN storeRes'.err = ErrDuplicateKey(0) /\ rows' = rows
              ELSE Cardinality(rows') = Cardinality(rows) + 1]_vars
    /\ [](storeRes.op = "TxCount" => storeRes.count = Cardinality(inserted))

\* C13 amended: an AddTransaction of a stored TxID fails with DuplicateKey
\* and leaves the rows; one of a new TxID returns nil and adds its row, or
\* fails with StorageError and leaves the rows; the rows are the TxIDs
\* inserted; TxCount returns their number, or 0 with an error.
C13_TxCountDistinct ==
    /\ [][AddStep =>
            IF storeRes'.txid \in rows
              THEN storeRes'.err = ErrDuplicateKey(0) /\ rows' = rows
              ELSE \/ /\ storeRes'.err = Nil
                      /\ rows' = rows \cup {storeRes'.txid}
                      /\ Cardinality(rows') = Cardinality(rows) + 1
                   \/ /\ storeRes'.err = ErrStorage(0)
                      /\ rows' = rows]_vars
    /\ [](rows = inserted)
    /\ [](storeRes.op = "TxCount" =>
            \/ storeRes.err = Nil /\ storeRes.count = Cardinality(inserted)
            \/ storeRes.err = ErrTxCount /\ storeRes.count = 0)

\* C13 witness: TxCount has returned 2 on a database created by NewStorage,
\* after two inserts.
C13_Witness ==
    /\ storePc = "open"
    /\ storeRes = [op |-> "TxCount", txid |-> 0, err |-> Nil, count |-> 2]
    /\ inserted = TxIds /\ rows = TxIds

\* The message reaches the loop of parseBlock over the transactions.
Decodable == wireBlock.frames >= 2 /\ wireBlock.decodes
\* Positions of the coinbase transactions of the block.
Coinbases == {k \in 1..Len(wireBlock.txs) : wireBlock.txs[k].coinbase}
\* The script of the last of them.
LastCoinbaseScript ==
    wireBlock.txs[CHOOSE k \in Coinbases : \A j \in Coinbases : j <= k].script
PushCount(k) == Len(wireBlock.txs[k].script.data)
\* The number a byte string denotes, least significant byte first.
RECURSIVE LEValue(_)
LEValue(d) == IF d = <<>> THEN 0 ELSE d[1] + 256 * LEValue(Tail(d))

\* C14: the height of a block DecodeBlock returns is the little-endian value
\* of the first pushed data item of the coinbase script (of its first four
\* bytes when it is longer), and DecodeBlock fails when a coinbase script
\* cannot be parsed or has a push count other than 2.
C14_HeightLittleEndian ==
    codecTask.st # "run" =>
        /\ (Decodable /\ \E k \in Coinbases :
                ~wireBlock.txs[k].script.ok \/ PushCount(k) # 2)
              => (codecTask.st = "sendErr" /\ codecTask.err = ErrParsingCoinbase)
        /\ codecTask.st = "sendBlock" =>
              LET d == LastCoinbaseScript.data[1] IN
                codecTask.block.height =
                    LEValue(IF Len(d) <= 4 THEN d ELSE SubSeq(d, 1, 4))

\* C14 witness: a coinbase script with two pushes, the first the two bytes
\* 103, 0: the block is returned with height 103.
C14_Witness ==
    /\ codecTask.st = "sendBlock"
    /\ codecTask.block.height = 103
    /\ Coinbases # {}
    /\ LastCoinbaseScript.data[1] = <<103, 0>>

\* C15 as stated: DecodeBlock returns a block only when every coinbase
\* script has exactly one push, of at most 4 bytes, and fails for any other
\* push count.
C15_AsStated ==
    codecTask.st # "run" =>
        /\ codecTask.st = "sendBlock" =>
              \A k \in Coinbases :
                  /\ wireBlock.txs[k].script.ok
                  /\ PushCount(k) = 1
                  /\ Len(wireBlock.txs[k].script.data[1]) <= 4
        /\ (Decodable /\ \E k \in Coinbases : PushCount(k) # 1)
              => codecTask.st = "sendErr"

\* C15 amended: DecodeBlock returns a block exactly when the message decodes,
\* the block has a coinbase and every coinbase script parses into exactly two
\* pushes, whatever their lengths; any other push count fails.
C15_TwoPushes ==
    codecTask.st # "run" =>
        /\ codecTask.st = "sendBlock" <=>
              /\ Decodable
              /\ Coinbases # {}
              /\ \A k \in Coinbases :
                    wireBlock.txs[k].script.ok /\ PushCount(k) = 2
        /\ (Decodable /\ \E k \in Coinbases : PushCount(k) # 2)
              => codecTask.st = "sendErr"

\* C15 witness: a block is returned for a coinbase script with two pushes,
\* the first of them longer than 4 bytes.
C15_Witness ==
    /\ codecTask.st = "sendBlock"
    /\ \E k \in Coinbases :
         PushCount(k) = 2 /\ Len(wireBlock.txs[k].script.data[1]) > 4

\* C16: a block offered to IncomingBlocks carries the height parseHeight
\* extracted from a coinbase input of the block; for a block without a
\* coinbase, or with a coinbase whose height extraction fails, parseBlock
\* returns an error and the goroutine offers no block.
C16_NoBlockWithoutHeight ==
    /\ codecTask.st = "sendBlock" =>
         /\ Coinbases # {}
         /\ parseHeight(LastCoinbaseScript).ok
         /\ codecTask.block.height = parseHeight(LastCoinbaseScript).height
         /\ codecTask.block.height >= 0
    /\ (/\ codecTask.st # "run"
        /\ Decodable
        /\ \/ Coinbases = {}
           \/ \E k \in Coinbases : ~parseHeight(wireBlock.txs[k].script).ok)
         => /\ codecTask.st = "sendErr"
            /\ codecTask.block = NoBlock
            /\ codecTask.err \in {ErrHeightNotFound, ErrParsingCoinbase}
    /\ codecTask.st # "sendBlock" => codecTask.block = NoBlock

\* C16 witness: a block of one transaction that is not a coinbase: the
\* error "height not found" and no block.
C16_Witness ==
    /\ wireBlock.txs = <<NonCoinbase>>
    /\ codecTask.st = "sendErr"
    /\ codecTask.err = ErrHeightNotFound
    /\ codecTask.block = NoBlock

\* Decode goroutines blocked in their send on IncomingTx / IncomingBlocks.
BlockedOnDelivery == {i \in MsgIds : tasks[i].st \in {"sendTx", "sendBlock"}}
\* Decode goroutines whose error Run has received from parseErrors.
Reported == {i \in MsgIds : tasks[i].st = "reported"}
IsTxMsg(i) == tasks[i].msg.topic = topicRawTxWithFee
\* A step of a Daemon operation: Stop (of a caller or of the goroutine
\* started by Run), the return of Run, Close.
DaemonOp ==
    \/ DaemonReturns
    \/ <<quit, stopCalls, stopPending>>' # <<quit, stopCalls, stopPending>>
    \/ storePc' # storePc

\* C17: whatever the decode goroutines are doing, and whether or not
\* anything receives from the output channels, the receive loop can take
\* its next step: with the stop flag set it can return nil at the loop
\* condition, with an error waiting on parseErrors it can return at the
\* select, and otherwise it can go on to the receive, which can time out and
\* go round.
C17_ReceiveLoopNotBlocked ==
    /\ subPc = "settimeo" => ENABLED SubSetRcvtimeo
    /\ subPc = "loop" =>
         IF cancel THEN ENABLED (SubLoop /\ subPc' = "done" /\ subRet' = Nil)
                   ELSE ENABLED (SubLoop /\ subPc' = "select")
    /\ subPc = "select" =>
         IF ErrSenders # {} THEN ENABLED (SubSelect /\ subPc' = "done")
                            ELSE ENABLED (SubSelect /\ subPc' = "recv")
    /\ subPc = "recv" => ENABLED (SubRecv /\ subPc' = "loop")

\* C17 witness: Daemon.Run has returned, every message received has its
\* decode goroutine blocked on an output channel, and the receive loop is
\* at its next receive.
C17_Witness ==
    /\ dPc = "returned"
    /\ nRecv = MaxMsgs
    /\ BlockedOnDelivery = MsgIds
    /\ subPc = "recv" /\ ~cancel

\* C18 as stated: when Run returns with two or more decode goroutines
\* waiting to report an error, it returns the error of one of them, whose
\* send completes; and the others stay blocked in their send ever after.
C18_AsStated ==
    /\ [][(SubReturns /\ Cardinality(ErrSenders) >= 2) =>
            \E i \in ErrSenders :
               /\ subRet' = processMessageErr(i, tasks[i].msg)
               /\ tasks'[i].st = "reported"
               /\ \A j \in ErrSenders \ {i} : tasks'[j].st = "sendErr"]_vars
    /\ [][subPc = "done" =>
            \A i \in MsgIds : tasks[i].st = "sendErr" => tasks'[i].st = "sendErr"]_vars

\* C18 amended: Run receives the error of at most one decode goroutine, and
\* then returns it.  When Run returns with two or more waiting to report, it
\* returns the error of one of them, or nil (Stop() was called) or the
\* error of a failed receive, and then none of the sends completes.  Every
\* goroutine still waiting to report once Run has returned stays blocked.
C18_SingleSlot ==
    /\ [](Cardinality(Reported) <= 1)
    /\ [](\A i \in Reported :
             subPc = "done" /\ subRet = processMessageErr(i, tasks[i].msg))
    /\ [][(SubReturns /\ Cardinality(ErrSenders) >= 2) =>
            \/ \E i \in ErrSenders :
                 /\ subRet' = processMessageErr(i, tasks[i].msg)
                 /\ tasks'[i].st = "reported"
                 /\ \A j \in ErrSenders \ {i} : tasks'[j].st = "sendErr"
            \/ /\ \/ cancel /\ subRet' = Nil
                  \/ subRet' = ErrRecv
               /\ \A j \in ErrSenders : tasks'[j].st = "sendErr"]_vars
    /\ [][subPc = "done" =>
            \A i \in MsgIds : tasks[i].st = "sendErr" => tasks'[i].st = "sendErr"]_vars

\* C18 witness: two decode goroutines failed; Run has returned the error of
\* the second and the first is blocked in its send on parseErrors.
C18_Witness ==
    /\ subPc = "done"
    /\ tasks[2].st = "reported" /\ subRet = processMessageErr(2, tasks[2].msg)
    /\ tasks[1].st = "sendErr"

\* C19: Storage.AddTransaction is called for the transactions in the order
\* in which the daemon loop received them from IncomingTx, whatever the order
\* in which their messages arrived.
C19_AddFollowsDelivery ==
    /\ Len(applied) = Len(SelectSeq(taken, IsTxMsg))
    /\ \A k \in 1..Len(applied) :
          applied[k].msg = SelectSeq(taken, IsTxMsg)[k]
    /\ \A k, l \in 1..Len(taken) : taken[k] = taken[l] => k = l

\* C19 witness: two rawtxwithfee messages; the transaction of the second was
\* delivered and stored first, that of the first after it.
C19_Witness ==
    /\ taken = <<2, 1>>
    /\ IsTxMsg(1) /\ IsTxMsg(2)
    /\ Len(applied) = 2
    /\ applied[1] = [msg |-> 2, err |-> Nil]
    /\ applied[2] = [msg |-> 1, err |-> Nil]

\* The same two messages delivered and stored in the order of arrival.
DeliveredInArrivalOrder ==
    /\ taken = <<1, 2>>
    /\ IsTxMsg(1) /\ IsTxMsg(2)
    /\ Len(applied) = 2
    /\ applied[1] = [msg |-> 1, err |-> Nil]
    /\ applied[2] = [msg |-> 2, err |-> Nil]

\* C20: no step of a Daemon operation (Stop, the return of Run, Close)
\* changes the subscriber's stop flag, the position of its Run or its
\* socket, and no step that sets the stop flag is a Daemon's; once
\* Daemon.Run has returned, the subscriber's Run returns only with the stop
\* flag set or with an error of its own, and a decode goroutine blocked on
\* delivery stays blocked.
C20_StopLeavesSubscriber ==
    /\ [][DaemonOp =>
            UNCHANGED <<cancel, subPc, subRet, socketCloses, nRecv>>]_vars
    /\ [][cancel' # cancel => UNCHANGED <<daemonVars, storePc>>]_vars
    /\ [][(dPc = "returned" /\ SubReturns) => (cancel \/ IsErr(subRet'))]_vars
    /\ [][dPc = "returned" =>
            \A i \in BlockedOnDelivery : tasks'[i].st = tasks[i].st]_vars

\* C20 witness: Daemon.Run has returned nil on a Stop() and the Storage is
\* closed; the stop flag is not set, the receive loop is running with the
\* socket open, and a transaction decoded from a message received since is
\* with its blocked decode goroutine.
C20_Witness ==
    /\ dPc = "returned" /\ dRet = Nil /\ stopCalls = 1
    /\ storePc = "closed"
    /\ taken = <<>>
    /\ ~cancel /\ subPc = "recv" /\ socketCloses = 0
    /\ \E i \in MsgIds : tasks[i].st = "sendTx" /\ Takes(i) = 0

(***************************************************************************)
(* The stop signal of the daemon: b.quit and the callers of Stop().        *)
(***************************************************************************)
\* A caller of BademeisterDaemon.Stop() is held in its send on b.quit: a
\* caller from outside, or the goroutine that Run() started, once the
\* subscriber's Run() has returned.
StopBlocked == stopPending > 0 \/ (gPc = "stop" /\ quit = QuitCap)

\* b.quit never holds more than its capacity.
StopQueueCapacity == quit <= QuitCap

\* A held caller of Stop() is released, unless Stop() is called from outside
\* more than once or Run() has returned with the error of the store.
StopReleasedUnlessStoreError ==
    StopBlocked ~> (\/ ~StopBlocked
                    \/ stopCalls > 1
                    \/ (dPc = "returned" /\ IsStoreErr(dRet)))

\* While Run() has returned, or has not been started, a full b.quit stays
\* full, a Stop() called then is held, and no held caller is released.
StopAfterReturnBlocks ==
    [][(dPc \in {"idle", "returned"} /\ dPc' = dPc /\ quit = QuitCap)
          => /\ quit' = QuitCap
             /\ stopPending' >= stopPending
             /\ (stopCalls' = stopCalls + 1 => stopPending' = stopPending + 1)
             /\ (gPc = "stop" => gPc' = "stop")]_vars

\* A call of Stop() from outside is held while Run() was never started.
StopHeldBeforeRun == dPc = "idle" /\ stopPending > 0 /\ quit = QuitCap

\* C21: the stop signal is a queue of capacity 1 written by the calls of
\* Stop() from outside and by the goroutine that follows the subscriber's
\* Run(); with at most one call of Stop() from outside, no caller of Stop()
\* stays held forever.
C21_NoStopCallerBlockedForever ==
    StopBlocked ~> (~StopBlocked \/ stopCalls > 1)

(***************************************************************************)
(* Malformed payloads.                                                     *)
(***************************************************************************)
\* The payload of the rawtxwithfee message is malformed for
\* parseTransaction's two checks.
MalformedTx == rawTx.frames # 2 \/ rawTx.length <= 8

\* parseTransaction reports every malformed payload as an error, and the
\* goroutine goes on to send it on parseErrors.
MalformedTransactionIsError ==
    (txTask.st \in {"sendErr", "sendTx"} /\ MalformedTx)
        => /\ txTask.st = "sendErr"
           /\ txTask.err \in {ErrPayloadLength(rawTx.frames), ErrRawTxLength}

\* A rawtxwithfee payload with a frame too many has been reported.
MalformedTransactionReported ==
    rawTx.frames = 3 /\ txTask.st = "sendErr"

\* parseBlock has indexed msg[1] of a message with fewer than two frames.
MissingBlockFramePanics ==
    wireBlock.frames < 2 /\ codecTask.st = "panic"

\* C22: every malformed payload is reported as an error value and never
\* crashes the decode goroutine: parseTransaction returns an error when the
\* frame count is not 2 or the first frame has length <= 8, and parseBlock
\* returns an error when the block message has fewer than two frames.
C22_MalformedReportedAsError ==
    /\ codecTask.st # "panic"
    /\ txTask.st # "panic"
    /\ (txTask.st \in {"sendErr", "sendTx"} /\ MalformedTx)
          => (txTask.st = "sendErr" /\ txTask.err \notin {Nil, NoRet})
    /\ (codecTask.st \in {"panic", "sendErr", "sendBlock"} /\ wireBlock.frames < 2)
          => (codecTask.st = "sendErr" /\ codecTask.err \notin {Nil, NoRet, Panic})

=========================================================================
